---- MODULE Spec2Model ----
(***************************************************************************)
(* The dmenu-gnome selection prompt: DmenuExtension / DmenuUI /            *)
(* DmenuService.  Two variants of the program exist in the repository:     *)
(*   "multi"  : src/unnamed/part_000 (multi-select, scrolling window)      *)
(*   "single" : src/extension.js     (single-select, MAX_RESULTS cap)      *)
(* The variant is fixed in the initial state; every handler is modelled    *)
(* for both.                                                               *)
(*                                                                         *)
(* The GNOME Shell main loop is single threaded: one handler (a D-Bus      *)
(* method call, a key press, the entry's signals, a GLib timeout) runs to  *)
(* completion before the next one starts, so every handler is one action.  *)
(* Input events reach the handlers only while this.actor is a child of     *)
(* Main.uiGroup and the entry holds the key focus, i.e. between show() and *)
(* hide().                                                                 *)
(***************************************************************************)
EXTENDS Integers, Sequences, FiniteSets, TLC

VARIABLES
    variant,             \* "multi" (part_000) or "single" (extension.js)
    enabled,             \* DmenuExtension: _service and _ui exist (enable() .. disable())
    attached,            \* this.actor is a child of Main.uiGroup (the prompt is Active)
    text,                \* this.entry text (the Query)
    _items,              \* DmenuUI._items (CandidateSet)
    _visible_items,      \* DmenuUI._visible_items (MatchList)
    _selected_index,     \* DmenuUI._selected_index (Cursor)
    _selected_items,     \* DmenuUI._selected_items: a JS Set, kept in insertion order
    _filter_timeout,     \* DmenuUI._filter_timeout: TRUE while a GLib timeout is pending
    _scroll_start_index, \* DmenuUI._scroll_start_index (Viewport.start)
    sources,             \* the number of pending GLib timeout sources of _onTextChanged
    signals,             \* D-Bus signals emitted since the last Show call, in order
    toggles,             \* history: the lines toggled since the last Show call, in order
    lastEvent            \* history: the handler that ran last

vars == << variant, enabled, attached, text, _items, _visible_items, _selected_index,
           _selected_items, _filter_timeout, _scroll_start_index, sources, signals,
           toggles, lastEvent >>

(***************************************************************************)
(* Bounds of the model.                                                    *)
(***************************************************************************)
MaxItems == 3
MaxToggles == 3
LongLen == 22
CapLen == 52
MidLen == 17
LiveItems == 3
LiveToggles == 1

(***************************************************************************)
(* Program constants.                                                      *)
(***************************************************************************)
_items_per_page == 20
MAX_RESULTS == 50

(***************************************************************************)
(* Strings.  A state holds strings as TLA+ strings; Chars gives a string's *)
(* characters, so that trim, toLowerCase, split and includes are computed  *)
(* character by character.                                                 *)
(***************************************************************************)
Chars(s) ==
    CASE s = ""       -> << >>
      [] s = " "      -> << " " >>
      [] s = "q"      -> << "q" >>
      [] s = "x"      -> << "x" >>
      [] s = "y"      -> << "y" >>
      [] s = "Y"      -> << "Y" >>
      [] s = "z"      -> << "z" >>
      [] s = " Y  y " -> << " ", "Y", " ", " ", "y", " " >>
      [] s = "an a"   -> << "a", "n", " ", "a" >>
      [] s = "apple"  -> << "a", "p", "p", "l", "e" >>
      [] s = "banana" -> << "b", "a", "n", "a", "n", "a" >>
      [] s = "grape"  -> << "g", "r", "a", "p", "e" >>

\* A candidate list longer than one page of the scrolling window.
LongList == [ i \in 1..LongLen |-> "x" ]

\* The candidate lists a caller passes to Show.
ItemLists ==
    { l \in { << >>,
              << "apple", "banana", "grape" >>,
              << "x", "y", "z" >>,
              << "x", "Y", "x" >>,
              << "y", "x" >>,
              << "x", "y", "z", "Y" >> } : Len(l) <= MaxItems }
    \cup { LongList }

\* A candidate list longer than MAX_RESULTS, whose last line alone is "y".
CapList == [ i \in 1..CapLen |-> IF i = CapLen THEN "y" ELSE "x" ]

\* A candidate list shorter than one page and longer than the page less the
\* scroll buffer.
MidList == [ i \in 1..MidLen |-> "x" ]

\* The lists passed to Show in a state: CapList goes to the single-select
\* variant, the one that caps its match list, and MidList to the
\* multi-select variant, the one that scrolls.
ShowInputs == ItemLists \cup (IF variant = "single" THEN { CapList } ELSE { MidList })

\* The texts the user can bring the entry to.
Queries == { "", " ", "an a", " Y  y ", "q" }

Max(a, b) == IF a >= b THEN a ELSE b
Min(a, b) == IF a <= b THEN a ELSE b

(***************************************************************************)
(* String helpers of the JavaScript runtime, as _updateResults uses them.  *)
(***************************************************************************)
IsWhiteSpace(c) == c = " "

LowerChar(c) == IF c = "Y" THEN "y" ELSE c

\* String.prototype.toLowerCase
toLowerCase(cs) == [ i \in 1..Len(cs) |-> LowerChar(cs[i]) ]

\* String.prototype.trim
RECURSIVE trimStart(_)
trimStart(cs) ==
    IF Len(cs) > 0 /\ IsWhiteSpace(Head(cs)) THEN trimStart(Tail(cs)) ELSE cs

RECURSIVE trimEnd(_)
trimEnd(cs) ==
    IF Len(cs) > 0 /\ IsWhiteSpace(cs[Len(cs)])
    THEN trimEnd(SubSeq(cs, 1, Len(cs) - 1))
    ELSE cs

trim(cs) == trimEnd(trimStart(cs))

\* String.prototype.split(/\s+/): the pieces between the maximal runs of
\* white space; a run at either end leaves an empty piece there, and the
\* empty string splits into one empty piece.
RECURSIVE splitFrom(_, _, _, _)
splitFrom(cs, i, piece, pieces) ==
    IF i > Len(cs) THEN Append(pieces, piece)
    ELSE IF IsWhiteSpace(cs[i])
         THEN IF i > 1 /\ IsWhiteSpace(cs[i - 1])
              THEN splitFrom(cs, i + 1, piece, pieces)
              ELSE splitFrom(cs, i + 1, << >>, Append(pieces, piece))
         ELSE splitFrom(cs, i + 1, Append(piece, cs[i]), pieces)

split(cs) == splitFrom(cs, 1, << >>, << >>)

\* String.prototype.includes
includes(hay, needle) ==
    \E k \in 0..(Len(hay) - Len(needle)) :
        SubSeq(hay, k + 1, k + Len(needle)) = needle

(***************************************************************************)
(* _updateResults: the filter.                                             *)
(***************************************************************************)
IsNonEmptyToken(token) == Len(token) > 0

\* filter.split(/\s+/).filter(token => token.length > 0), filter being the
\* trimmed, lower-cased entry text, computed once as "const filter"
filterTokens(txt) ==
    CHOOSE tokens \in { SelectSeq(split(filter), IsNonEmptyToken) :
                           filter \in { toLowerCase(trim(Chars(txt))) } } : TRUE

\* filterTokens.every(token => itemLower.includes(token))
allTokensMatch_some(item, tokens) ==
    \E t \in 1..Len(tokens) : includes(toLowerCase(Chars(item)), tokens[t])

allTokensMatch(item, tokens) ==
    \A t \in 1..Len(tokens) : includes(toLowerCase(Chars(item)), tokens[t])

\* the loop breaking one match late: "length > MAX_RESULTS"
RECURSIVE filterLoop_breakLate(_, _, _, _, _)
filterLoop_breakLate(its, i, tokens, limited, acc) ==
    IF i > Len(its) THEN acc
    ELSE IF limited /\ Len(acc) > MAX_RESULTS THEN acc
    ELSE IF Len(tokens) = 0
         THEN filterLoop_breakLate(its, i + 1, tokens, limited, Append(acc, its[i]))
    ELSE IF allTokensMatch(its[i], tokens)
         THEN filterLoop_breakLate(its, i + 1, tokens, limited, Append(acc, its[i]))
         ELSE filterLoop_breakLate(its, i + 1, tokens, limited, acc)

\* the loop "for (const item of this._items)"; limited is TRUE in the
\* single-select variant, whose loop breaks at MAX_RESULTS matches
RECURSIVE filterLoop(_, _, _, _, _)
filterLoop(its, i, tokens, limited, acc) ==
    IF i > Len(its) THEN acc
    ELSE IF limited /\ Len(acc) >= MAX_RESULTS THEN acc
    ELSE IF Len(tokens) = 0 THEN filterLoop(its, i + 1, tokens, limited, Append(acc, its[i]))
    ELSE IF allTokensMatch(its[i], tokens)
         THEN filterLoop(its, i + 1, tokens, limited, Append(acc, its[i]))
         ELSE filterLoop(its, i + 1, tokens, limited, acc)

\* the value _updateResults leaves in this._visible_items
_updateResults(its, txt) ==
    CHOOSE visible \in { filterLoop(its, 1, tokens, variant = "single", << >>) :
                            tokens \in { filterTokens(txt) } } : TRUE

(***************************************************************************)
(* _updateScrollWindow (multi-select variant): the new _scroll_start_index.*)
(***************************************************************************)
\* _updateScrollWindow without the buffer: the window moves only when the
\* cursor would leave it
_updateScrollWindow_noBuffer(vis, idx, start) ==
    IF variant = "single" THEN start
    ELSE IF Len(vis) = 0 THEN 0
    ELSE LET moved == IF idx < start
                      THEN Max(0, idx)
                      ELSE IF idx >= start + _items_per_page
                           THEN Min(Len(vis) - _items_per_page,
                                    idx - _items_per_page + 1)
                           ELSE start
         IN  Max(0, moved)

\* _updateScrollWindow without the Math.min that keeps a whole page in the list
_updateScrollWindow_noPageClamp(vis, idx, start) ==
    IF variant = "single" THEN start
    ELSE IF Len(vis) = 0 THEN 0
    ELSE LET buffer == _items_per_page \div 4
             moved == IF idx < start + buffer
                      THEN Max(0, idx - buffer)
                      ELSE IF idx >= start + _items_per_page - buffer
                           THEN idx - _items_per_page + buffer + 1
                           ELSE start
         IN  Max(0, moved)

_updateScrollWindow(vis, idx, start) ==
    IF variant = "single" THEN start
    ELSE IF Len(vis) = 0 THEN 0
    ELSE LET buffer == _items_per_page \div 4
             moved == IF idx < start + buffer
                      THEN Max(0, idx - buffer)
                      ELSE IF idx >= start + _items_per_page - buffer
                           THEN Min(Len(vis) - _items_per_page,
                                    idx - _items_per_page + buffer + 1)
                           ELSE start
         IN  Max(0, moved)

(***************************************************************************)
(* DmenuService: the two outbound D-Bus signals.                           *)
(***************************************************************************)
ItemSelected(payload) == [ name |-> "ItemSelected", items |-> payload ]
Cancelled == [ name |-> "Cancelled", items |-> << >> ]

emitItemSelected(payload) == signals' = Append(signals, ItemSelected(payload))
emitCancelled == signals' = Append(signals, Cancelled)

(***************************************************************************)
(* DmenuUI                                                                 *)
(***************************************************************************)
\* Set.prototype.has / add / delete on the insertion-ordered _selected_items
SetHas(set, v) == \E i \in 1..Len(set) : set[i] = v
SetAdd(set, v) == IF SetHas(set, v) THEN set ELSE Append(set, v)
SetDelete(set, v) ==
    LET IsOther(w) == w # v
    IN  SelectSeq(set, IsOther)

\* _onTextChanged(): the pending sources once the old timeout, if any, is
\* removed and the new one is added
rescheduled == (IF _filter_timeout THEN sources - 1 ELSE sources) + 1

\* hide() without the GLib.source_remove of the pending timeout
hide_keepTimeout ==
    /\ attached' = FALSE
    /\ UNCHANGED << _filter_timeout, sources >>

\* hide(): removes the pending timeout and detaches the actor
hide ==
    /\ _filter_timeout' = FALSE
    /\ sources' = IF _filter_timeout THEN sources - 1 ELSE sources
    /\ attached' = FALSE

\* the highlighted line, this._visible_items[this._selected_index]
currentItem == _visible_items[_selected_index + 1]

hasCurrentItem == Len(_visible_items) > 0 /\ _selected_index < Len(_visible_items)

\* itemsToReturn ignoring the toggled lines
itemsToReturn_highlighted ==
    IF hasCurrentItem THEN << currentItem >> ELSE << >>

\* _onActivate(): itemsToReturn
itemsToReturn ==
    IF variant = "multi" /\ Len(_selected_items) > 0 THEN _selected_items
    ELSE IF hasCurrentItem THEN << currentItem >>
    ELSE << >>

\* _onActivate() without its call to hide()
_onActivate_noHide ==
    /\ IF Len(itemsToReturn) > 0
       THEN emitItemSelected(itemsToReturn) /\ UNCHANGED << _filter_timeout, sources, attached >>
       ELSE UNCHANGED << signals, _filter_timeout, sources, attached >>
    /\ UNCHANGED << _selected_index, _scroll_start_index, _selected_items, toggles >>

\* _onActivate() without the test of itemsToReturn.length
_onActivate_always ==
    /\ emitItemSelected(itemsToReturn) /\ hide
    /\ UNCHANGED << _selected_index, _scroll_start_index, _selected_items, toggles >>

\* _onActivate(): emit the selection and hide, or do nothing
_onActivate ==
    /\ IF Len(itemsToReturn) > 0
       THEN emitItemSelected(itemsToReturn) /\ hide
       ELSE UNCHANGED << signals, _filter_timeout, sources, attached >>
    /\ UNCHANGED << _selected_index, _scroll_start_index, _selected_items, toggles >>

\* the cursor keys without their test "this._visible_items.length > 0"
moveTo_noLengthTest(newIndex) ==
    /\ _selected_index' = newIndex
    /\ _scroll_start_index' =
           _updateScrollWindow(_visible_items, newIndex, _scroll_start_index)
    /\ UNCHANGED << signals, _filter_timeout, sources, attached, _selected_items, toggles >>

\* a key that moves the cursor to newIndex when there are matches
moveTo(newIndex) ==
    /\ IF Len(_visible_items) > 0
       THEN /\ _selected_index' = newIndex
            /\ _scroll_start_index' =
                   _updateScrollWindow(_visible_items, newIndex, _scroll_start_index)
       ELSE UNCHANGED << _selected_index, _scroll_start_index >>
    /\ UNCHANGED << signals, _filter_timeout, sources, attached, _selected_items, toggles >>

\* the toggle keys with a toggle that only ever adds the highlighted line
toggleCurrent_addOnly(advance) ==
    /\ IF hasCurrentItem
       THEN /\ Len(toggles) < MaxToggles
            /\ toggles' = Append(toggles, currentItem)
            /\ _selected_items' = SetAdd(_selected_items, currentItem)
            /\ _selected_index' =
                   IF advance
                   THEN Min(Len(_visible_items) - 1, _selected_index + 1)
                   ELSE _selected_index
            /\ _scroll_start_index' =
                   _updateScrollWindow(_visible_items, _selected_index', _scroll_start_index)
       ELSE UNCHANGED << toggles, _selected_items, _selected_index, _scroll_start_index >>
    /\ UNCHANGED << signals, _filter_timeout, sources, attached >>

\* Tab, Ctrl+Space and Shift+Return of the multi-select variant: toggle the
\* highlighted line, advance the cursor when advance is TRUE.  The history
\* of toggles holds at most MaxToggles toggles per invocation.
toggleCurrent(advance) ==
    /\ IF hasCurrentItem
       THEN /\ Len(toggles) < MaxToggles
            /\ toggles' = Append(toggles, currentItem)
            /\ _selected_items' =
                   IF SetHas(_selected_items, currentItem)
                   THEN SetDelete(_selected_items, currentItem)
                   ELSE SetAdd(_selected_items, currentItem)
            /\ _selected_index' =
                   IF advance
                   THEN Min(Len(_visible_items) - 1, _selected_index + 1)
                   ELSE _selected_index
            /\ _scroll_start_index' =
                   _updateScrollWindow(_visible_items, _selected_index', _scroll_start_index)
       ELSE UNCHANGED << toggles, _selected_items, _selected_index, _scroll_start_index >>
    /\ UNCHANGED << signals, _filter_timeout, sources, attached >>

\* Escape without its call to hide()
keyEscape_noHide ==
    /\ emitCancelled
    /\ UNCHANGED << _filter_timeout, sources, attached >>
    /\ UNCHANGED << _selected_index, _scroll_start_index, _selected_items, toggles >>

\* Escape: emitCancelled(), hide()
keyEscape ==
    /\ emitCancelled
    /\ hide
    /\ UNCHANGED << _selected_index, _scroll_start_index, _selected_items, toggles >>

\* a key no branch of _onKeyPress handles (Clutter.EVENT_PROPAGATE)
keyPropagate ==
    UNCHANGED << signals, _filter_timeout, sources, attached, _selected_index,
                 _scroll_start_index, _selected_items, toggles >>

Keys == { "Escape", "Up", "Down", "Page_Up", "Page_Down", "Home", "End", "Tab",
          "Ctrl+space", "Return", "Shift+Return" }

\* _onKeyPress of the multi-select variant with a Down that wraps to the
\* first line instead of stopping at the last
_onKeyPress_multi_wrapDown(symbol) ==
    CASE symbol = "Escape"       -> keyEscape
      [] symbol = "Up"           -> moveTo(Max(0, _selected_index - 1))
      [] symbol = "Down"         -> moveTo(IF Len(_visible_items) > 0
                                           THEN (_selected_index + 1) % Len(_visible_items)
                                           ELSE _selected_index)
      [] symbol = "Page_Up"      -> moveTo(Max(0, _selected_index - _items_per_page))
      [] symbol = "Page_Down"    -> moveTo(Min(Len(_visible_items) - 1,
                                               _selected_index + _items_per_page))
      [] symbol = "Home"         -> moveTo(0)
      [] symbol = "End"          -> moveTo(Len(_visible_items) - 1)
      [] symbol = "Tab"          -> toggleCurrent(TRUE)
      [] symbol = "Ctrl+space"   -> toggleCurrent(FALSE)
      [] symbol = "Shift+Return" -> toggleCurrent(TRUE)
      [] symbol = "Return"       -> _onActivate
      [] OTHER                   -> keyPropagate

\* _onKeyPress(actor, event) of the multi-select variant
_onKeyPress_multi(symbol) ==
    CASE symbol = "Escape"       -> keyEscape
      [] symbol = "Up"           -> moveTo(Max(0, _selected_index - 1))
      [] symbol = "Down"         -> moveTo(Min(Len(_visible_items) - 1, _selected_index + 1))
      [] symbol = "Page_Up"      -> moveTo(Max(0, _selected_index - _items_per_page))
      [] symbol = "Page_Down"    -> moveTo(Min(Len(_visible_items) - 1,
                                               _selected_index + _items_per_page))
      [] symbol = "Home"         -> moveTo(0)
      [] symbol = "End"          -> moveTo(Len(_visible_items) - 1)
      [] symbol = "Tab"          -> toggleCurrent(TRUE)
      [] symbol = "Ctrl+space"   -> toggleCurrent(FALSE)
      [] symbol = "Shift+Return" -> toggleCurrent(TRUE)
      [] symbol = "Return"       -> _onActivate
      [] OTHER                   -> keyPropagate

\* _onKeyPress of the single-select variant with a Tab that stops at the
\* last line instead of wrapping
_onKeyPress_single_clampTab(symbol) ==
    CASE symbol = "Escape"       -> keyEscape
      [] symbol = "Up"           -> moveTo(Max(0, _selected_index - 1))
      [] symbol = "Down"         -> moveTo(Min(Len(_visible_items) - 1, _selected_index + 1))
      [] symbol = "Tab"          -> moveTo(Min(Len(_visible_items) - 1, _selected_index + 1))
      [] symbol = "Return"       -> _onActivate
      [] symbol = "Shift+Return" -> _onActivate
      [] OTHER                   -> keyPropagate

\* _onKeyPress(actor, event) of the single-select variant
_onKeyPress_single(symbol) ==
    CASE symbol = "Escape"       -> keyEscape
      [] symbol = "Up"           -> moveTo(Max(0, _selected_index - 1))
      [] symbol = "Down"         -> moveTo(Min(Len(_visible_items) - 1, _selected_index + 1))
      [] symbol = "Tab"          -> moveTo(IF Len(_visible_items) > 0
                                           THEN (_selected_index + 1) % Len(_visible_items)
                                           ELSE _selected_index)
      [] symbol = "Return"       -> _onActivate
      [] symbol = "Shift+Return" -> _onActivate
      [] OTHER                   -> keyPropagate

(***************************************************************************)
(* The handlers, one action each.                                          *)
(***************************************************************************)
\* show() without its closing call "this._updateResults()"
Show_noUpdateResults(its) ==
    /\ enabled
    /\ _items' = its
    /\ _selected_items' = << >>
    /\ text' = ""
    /\ _filter_timeout' = IF text # "" THEN TRUE ELSE _filter_timeout
    /\ sources' = IF text # "" THEN rescheduled ELSE sources
    /\ _selected_index' = 0
    /\ attached' = TRUE
    /\ signals' = << >>
    /\ toggles' = << >>
    /\ lastEvent' = "show"
    /\ UNCHANGED << variant, enabled, _visible_items, _scroll_start_index >>

\* show() without "this._selected_items.clear()"
Show_keepSelection(its) ==
    /\ enabled
    /\ _items' = its
    /\ _selected_items' = _selected_items
    /\ text' = ""
    /\ _filter_timeout' = IF text # "" THEN TRUE ELSE _filter_timeout
    /\ sources' = IF text # "" THEN rescheduled ELSE sources
    /\ _selected_index' = 0
    /\ attached' = TRUE
    /\ _visible_items' = _updateResults(its, "")
    /\ _scroll_start_index' = _updateScrollWindow(_visible_items', 0, _scroll_start_index)
    /\ signals' = << >>
    /\ toggles' = << >>
    /\ lastEvent' = "show"
    /\ UNCHANGED << variant, enabled >>

\* DmenuService.Show -> DmenuExtension.show -> DmenuUI.show.  entry.set_text('')
\* emits 'text-changed' when it changes the text, which runs _onTextChanged.
Show(its) ==
    /\ enabled
    /\ _items' = its
    /\ _selected_items' = << >>
    /\ text' = ""
    /\ _filter_timeout' = IF text # "" THEN TRUE ELSE _filter_timeout
    /\ sources' = IF text # "" THEN rescheduled ELSE sources
    /\ _selected_index' = 0
    /\ attached' = TRUE
    /\ _visible_items' = _updateResults(its, "")
    /\ _scroll_start_index' = _updateScrollWindow(_visible_items', 0, _scroll_start_index)
    /\ signals' = << >>
    /\ toggles' = << >>
    /\ lastEvent' = "show"
    /\ UNCHANGED << variant, enabled >>

\* _onTextChanged that removes the pending timeout and adds none
_onTextChanged_noSchedule(q) ==
    /\ attached
    /\ q # text
    /\ text' = q
    /\ _filter_timeout' = FALSE
    /\ sources' = IF _filter_timeout THEN sources - 1 ELSE sources
    /\ lastEvent' = "text-changed"
    /\ UNCHANGED << variant, enabled, attached, _items, _visible_items, _selected_index,
                    _selected_items, _scroll_start_index, signals, toggles >>

\* _onTextChanged without GLib.source_remove of the pending timeout
_onTextChanged_noRemove(q) ==
    /\ attached
    /\ q # text
    /\ text' = q
    /\ _filter_timeout' = TRUE
    /\ sources' = sources + 1
    /\ lastEvent' = "text-changed"
    /\ UNCHANGED << variant, enabled, attached, _items, _visible_items, _selected_index,
                    _selected_items, _scroll_start_index, signals, toggles >>

\* 'text-changed' of the entry: the user edited the text; _onTextChanged
\* replaces the pending timeout by a new one
_onTextChanged(q) ==
    /\ attached
    /\ q # text
    /\ text' = q
    /\ _filter_timeout' = TRUE
    /\ sources' = rescheduled
    /\ lastEvent' = "text-changed"
    /\ UNCHANGED << variant, enabled, attached, _items, _visible_items, _selected_index,
                    _selected_items, _scroll_start_index, signals, toggles >>

\* the timeout callback without "this._selected_index = 0"
filterTimeout_keepIndex ==
    /\ sources > 0
    /\ sources' = sources - 1
    /\ _selected_index' = _selected_index
    /\ _visible_items' = _updateResults(_items, text)
    /\ _scroll_start_index' =
           _updateScrollWindow(_visible_items', _selected_index, _scroll_start_index)
    /\ _filter_timeout' = FALSE
    /\ lastEvent' = "timeout"
    /\ UNCHANGED << variant, enabled, attached, text, _items, _selected_items, signals,
                    toggles >>

\* the timeout callback filtering the lines shown instead of this._items
filterTimeout_narrowing ==
    /\ sources > 0
    /\ sources' = sources - 1
    /\ _selected_index' = 0
    /\ _visible_items' = _updateResults(_visible_items, text)
    /\ _scroll_start_index' = _updateScrollWindow(_visible_items', 0, _scroll_start_index)
    /\ _filter_timeout' = FALSE
    /\ lastEvent' = "timeout"
    /\ UNCHANGED << variant, enabled, attached, text, _items, _selected_items, signals,
                    toggles >>

\* the timeout callback also dropping the toggled lines that no longer match
filterTimeout_pruneSelection ==
    /\ sources > 0
    /\ sources' = sources - 1
    /\ _selected_index' = 0
    /\ _visible_items' = _updateResults(_items, text)
    /\ _selected_items' = _updateResults(_selected_items, text)
    /\ _scroll_start_index' = _updateScrollWindow(_visible_items', 0, _scroll_start_index)
    /\ _filter_timeout' = FALSE
    /\ lastEvent' = "timeout"
    /\ UNCHANGED << variant, enabled, attached, text, _items, signals, toggles >>

\* the GLib timeout callback scheduled by _onTextChanged; it runs when a
\* source is pending and returns SOURCE_REMOVE
filterTimeout ==
    /\ sources > 0
    /\ sources' = sources - 1
    /\ _selected_index' = 0
    /\ _visible_items' = _updateResults(_items, text)
    /\ _scroll_start_index' = _updateScrollWindow(_visible_items', 0, _scroll_start_index)
    /\ _filter_timeout' = FALSE
    /\ lastEvent' = "timeout"
    /\ UNCHANGED << variant, enabled, attached, text, _items, _selected_items, signals,
                    toggles >>

\* 'key-press-event' of the actor
_onKeyPress(symbol) ==
    /\ attached
    /\ IF variant = "multi" THEN _onKeyPress_multi(symbol) ELSE _onKeyPress_single(symbol)
    /\ lastEvent' = symbol
    /\ UNCHANGED << variant, enabled, text, _items, _visible_items >>

\* 'activate' of the entry's ClutterText
onEntryActivate ==
    /\ attached
    /\ _onActivate
    /\ lastEvent' = "activate"
    /\ UNCHANGED << variant, enabled, text, _items, _visible_items >>

\* DmenuExtension.disable(): unexport the service, hide the UI, drop both
disable ==
    /\ enabled
    /\ enabled' = FALSE
    /\ hide
    /\ lastEvent' = "disable"
    /\ UNCHANGED << variant, text, _items, _visible_items, _selected_index, _selected_items,
                    _scroll_start_index, signals, toggles >>

\* DmenuExtension.enable(): a new DmenuService and a new DmenuUI
enable ==
    /\ ~enabled
    /\ enabled' = TRUE
    /\ attached' = FALSE
    /\ text' = ""
    /\ _items' = << >>
    /\ _visible_items' = << >>
    /\ _selected_index' = 0
    /\ _selected_items' = << >>
    /\ _filter_timeout' = FALSE
    /\ sources' = sources
    /\ _scroll_start_index' = 0
    /\ signals' = << >>
    /\ toggles' = << >>
    /\ lastEvent' = "enable"
    /\ UNCHANGED variant

\* The state after enable(), for either variant of the program.
Init ==
    /\ variant \in { "multi", "single" }
    /\ enabled = TRUE
    /\ attached = FALSE
    /\ text = ""
    /\ _items = << >>
    /\ _visible_items = << >>
    /\ _selected_index = 0
    /\ _selected_items = << >>
    /\ _filter_timeout = FALSE
    /\ sources = 0
    /\ _scroll_start_index = 0
    /\ signals = << >>
    /\ toggles = << >>
    /\ lastEvent = "enable"

Next ==
    \/ \E its \in ShowInputs : Show(its)
    \/ \E q \in Queries : _onTextChanged(q)
    \/ filterTimeout
    \/ \E symbol \in Keys : _onKeyPress(symbol)
    \/ onEntryActivate
    \/ disable
    \/ enable

Spec == Init /\ [][Next]_vars

\* The candidate lists of the liveness specification: those of at most
\* LiveItems lines.
LiveInputs == { its \in ItemLists : Len(its) <= LiveItems }

\* Next with Show drawing its candidates from LiveInputs and with at most
\* LiveToggles toggles per invocation.
FairNext ==
    \/ \E its \in LiveInputs : Show(its)
    \/ \E q \in Queries : _onTextChanged(q)
    \/ filterTimeout
    \/ \E symbol \in Keys :
           /\ symbol \in { "Tab", "Ctrl+space", "Shift+Return" } => Len(toggles) < LiveToggles
           /\ _onKeyPress(symbol)
    \/ onEntryActivate
    \/ disable
    \/ enable

\* GLib runs the callback of a timeout source that stays pending: the main
\* loop dispatches it once its interval has elapsed.
FairSpec == Init /\ [][FairNext]_vars /\ WF_vars(filterTimeout)

TypeOK ==
    /\ variant \in { "multi", "single" }
    /\ enabled \in BOOLEAN
    /\ attached \in BOOLEAN
    /\ text \in Queries
    /\ _selected_index \in Nat
    /\ _scroll_start_index \in Nat
    /\ _filter_timeout \in BOOLEAN
    /\ sources \in Nat
    /\ Len(toggles) <= MaxToggles

(***************************************************************************)
(* Vocabulary of the properties.                                           *)
(***************************************************************************)
Active == attached
Idle == ~attached

\* the step just taken ran _onActivate (Commit)
CommitStep ==
    /\ Active
    /\ \/ lastEvent' = "activate"
       \/ lastEvent' = "Return"
       \/ variant = "single" /\ lastEvent' = "Shift+Return"

\* the step just taken processed Escape (Cancel)
CancelStep == Active /\ lastEvent' = "Escape"

(***************************************************************************)
(* C1.  Per invocation (since the last Show) at most one of ItemSelected   *)
(* and Cancelled is emitted: a signal is emitted only while the prompt is  *)
(* Active, the prompt is Idle once a signal has been emitted, and no step  *)
(* taken while Idle emits a signal.                                        *)
(***************************************************************************)
C1_AtMostOneNotification ==
    /\ [](Len(signals) <= 1)
    /\ [](Len(signals) = 1 => Idle)
    /\ [][Idle => (signals' = signals \/ signals' = << >>)]_vars

C1_Witness ==
    /\ Idle
    /\ lastEvent = "activate"
    /\ signals = << ItemSelected(<< "y" >>) >>

(***************************************************************************)
(* C2.  Cancel (Escape) is enabled in every Active state, and processing   *)
(* it leaves exactly one Cancelled and no ItemSelected emitted for the     *)
(* invocation and the engine Idle.                                         *)
(***************************************************************************)
C2_CancelAlwaysTerminates ==
    /\ [](Active => ENABLED _onKeyPress("Escape"))
    /\ [][CancelStep => (signals = << >> /\ signals' = << Cancelled >> /\ Idle')]_vars

C2_Witness ==
    /\ lastEvent = "Escape"
    /\ Idle
    /\ signals = << Cancelled >>
    /\ text = "q"
    /\ _visible_items = << "x", "y", "z" >>
    /\ _selected_items = << "y" >>
    /\ _selected_index = 2

(***************************************************************************)
(* The lines toggled on, in the order in which they were toggled on, read  *)
(* off the history of toggles: a line is on when it was toggled an odd     *)
(* number of times, and it was toggled on at its last toggle.              *)
(***************************************************************************)
ToggledOnAt(h, i) ==
    /\ \A j \in (i + 1)..Len(h) : h[j] # h[i]
    /\ Cardinality({ j \in 1..Len(h) : h[j] = h[i] }) % 2 = 1

RECURSIVE ToggledOnFrom(_, _)
ToggledOnFrom(h, i) ==
    IF i > Len(h) THEN << >>
    ELSE IF ToggledOnAt(h, i) THEN << h[i] >> \o ToggledOnFrom(h, i + 1)
    ELSE ToggledOnFrom(h, i + 1)

ToggledOn(h) == ToggledOnFrom(h, 1)

(***************************************************************************)
(* The filter as the specification words it: the tokens of a query are its *)
(* maximal runs of non-white-space characters; a line matches when it      *)
(* contains each of them, ignoring case.                                   *)
(***************************************************************************)
QueryTokens(q) ==
    LET cs == Chars(q)
    IN  { SubSeq(cs, i, j) : << i, j >> \in
            { p \in (1..Len(cs)) \X (1..Len(cs)) :
                /\ p[1] <= p[2]
                /\ \A k \in p[1]..p[2] : cs[k] # " "
                /\ (p[1] = 1 \/ cs[p[1] - 1] = " ")
                /\ (p[2] = Len(cs) \/ cs[p[2] + 1] = " ") } }

SameLetter(c, d) == c = d \/ { c, d } = { "y", "Y" }

ContainsIgnoringCase(line, token) ==
    \E k \in 0..(Len(line) - Len(token)) :
        \A m \in 1..Len(token) : SameLetter(line[k + m], token[m])

LineMatches(line, q) ==
    \A token \in QueryTokens(q) : ContainsIgnoringCase(Chars(line), token)

MatchingLines(its, q) ==
    LET Matches(line) == LineMatches(line, q)
    IN  SelectSeq(its, Matches)

(***************************************************************************)
(* C3.  Multi-select: a Commit while lines are toggled on emits exactly    *)
(* one ItemSelected carrying exactly those lines in the order in which     *)
(* they were toggled on, whatever the cursor and the match list are.       *)
(***************************************************************************)
C3_CommitEmitsToggled ==
    [][(CommitStep /\ variant = "multi" /\ ToggledOn(toggles) # << >>)
          => signals' = << ItemSelected(ToggledOn(toggles)) >>]_vars

C3_Witness ==
    /\ variant = "multi"
    /\ lastEvent = "Return"
    /\ _items = << "x", "y", "z" >>
    /\ toggles = << "x", "y" >>
    /\ _selected_index = 2
    /\ signals = << ItemSelected(<< "x", "y" >>) >>

(***************************************************************************)
(* C4 (as claimed).  A Commit with nothing toggled emits a line that       *)
(* contains every token of the entry's current text, and it emits one      *)
(* whenever some candidate line does, also while a debounce timeout is     *)
(* pending.                                                                *)
(***************************************************************************)
C4_CommitUsesCurrentQuery ==
    [][(CommitStep /\ _selected_items = << >>)
          => /\ signals' # signals
                => \E i \in 1..Len(_items) :
                      /\ signals' = << ItemSelected(<< _items[i] >>) >>
                      /\ LineMatches(_items[i], text)
             /\ MatchingLines(_items, text) # << >> => signals' # signals]_vars

(***************************************************************************)
(* C5.  ItemSelected never carries an empty payload: a Commit with no      *)
(* match and nothing toggled emits nothing and changes nothing, and the    *)
(* prompt stays Active.                                                    *)
(***************************************************************************)
C5_NoEmptyPayload ==
    /\ [](\A i \in 1..Len(signals) :
              signals[i].name = "ItemSelected" => Len(signals[i].items) > 0)
    /\ [][(CommitStep /\ _visible_items = << >> /\ _selected_items = << >>)
             => /\ Active'
                /\ UNCHANGED << variant, enabled, attached, text, _items, _visible_items,
                                _selected_index, _selected_items, _filter_timeout,
                                sources, _scroll_start_index, signals, toggles >>]_vars

C5_Witness ==
    /\ Active
    /\ lastEvent = "Return"
    /\ _items = << "x", "y", "z" >>
    /\ text = "q"
    /\ _visible_items = << >>
    /\ _selected_items = << >>
    /\ signals = << >>

(***************************************************************************)
(* C6.  Multi-select: the match list a recomputation (show, or the         *)
(* debounce timeout) leaves is exactly the candidate lines, in their       *)
(* order and with duplicates, that contain every token of the query        *)
(* ignoring case.                                                          *)
(***************************************************************************)
C6_FilterIsExact ==
    (variant = "multi" /\ lastEvent \in { "show", "timeout" })
        => _visible_items = MatchingLines(_items, text)

C6_Witness ==
    /\ variant = "multi"
    /\ lastEvent = "timeout"
    /\ _items = << "apple", "banana", "grape" >>
    /\ text = "an a"
    /\ _visible_items = << "banana" >>

(***************************************************************************)
(* C7.  In every reachable state of either variant the cursor is an index  *)
(* of the match list when the match list is not empty, and 0 when it is.   *)
(***************************************************************************)
C7_CursorInRange ==
    /\ _selected_index >= 0
    /\ Len(_visible_items) > 0 => _selected_index < Len(_visible_items)
    /\ Len(_visible_items) = 0 => _selected_index = 0

C7_Witness ==
    /\ lastEvent = "timeout"
    /\ Active
    /\ _items = << "x", "y", "z" >>
    /\ _visible_items = << "y" >>
    /\ _selected_items = << "z" >>
    /\ _selected_index = 0

(***************************************************************************)
(* C8.  Multi-select: right after Show the prompt is Active on the new     *)
(* candidates alone: empty query, cursor 0, nothing toggled, window at 0,  *)
(* match list equal to the candidate list; and a debounce timeout firing   *)
(* next leaves all of that as it is.                                       *)
(***************************************************************************)
FreshlyShown ==
    /\ Active
    /\ text = ""
    /\ _selected_index = 0
    /\ _selected_items = << >>
    /\ _scroll_start_index = 0
    /\ _visible_items = _items

C8_ShowResets ==
    /\ []((variant = "multi" /\ lastEvent = "show") => FreshlyShown)
    /\ [][(variant = "multi" /\ lastEvent = "show" /\ lastEvent' = "timeout")
             => (FreshlyShown' /\ _items' = _items)]_vars

C8_Witness ==
    /\ variant = "multi"
    /\ lastEvent = "show"
    /\ FreshlyShown
    /\ _filter_timeout
    /\ _items = << "y", "x" >>

(***************************************************************************)
(* C9 (as claimed).  Once a signal has been emitted the prompt is Idle and *)
(* holds nothing of the invocation: no candidates, matches or toggled      *)
(* lines, an empty query, cursor and window at 0.                          *)
(***************************************************************************)
C9_StateDiscardedAfterSignal ==
    Len(signals) > 0
        => /\ Idle
           /\ _items = << >>
           /\ _visible_items = << >>
           /\ _selected_items = << >>
           /\ text = ""
           /\ _selected_index = 0
           /\ _scroll_start_index = 0

(***************************************************************************)
(* C10 (as claimed).  disable() while the prompt is Active detaches it and *)
(* emits Cancelled for the invocation.                                     *)
(***************************************************************************)
C10_DisableCancels ==
    [][(Active /\ signals = << >> /\ lastEvent' = "disable")
          => (Idle' /\ signals' = << Cancelled >>)]_vars

(***************************************************************************)
(* C11.  disable() while the prompt is Active, with or without a pending   *)
(* debounce timeout, leaves the prompt Idle with no timeout source         *)
(* pending and emits no signal; while the extension is disabled the        *)
(* timeout callback cannot run and no step emits a signal.                 *)
(***************************************************************************)
C11_DisableReleasesTimer ==
    /\ [][(Active /\ lastEvent' = "disable")
             => (Idle' /\ sources' = 0 /\ ~_filter_timeout' /\ signals' = signals)]_vars
    /\ [](~enabled => (Idle /\ sources = 0 /\ ~ENABLED filterTimeout))
    /\ [][~enabled => Len(signals') <= Len(signals)]_vars

C11_Witness ==
    /\ lastEvent = "disable"
    /\ ~enabled
    /\ Idle
    /\ signals = << >>
    /\ text = "q"
    /\ _visible_items = << "x", "y", "z" >>
    /\ sources = 0

(***************************************************************************)
(* The match list of a candidate list and a query in the running variant:  *)
(* the matching lines, of which the single-select variant keeps the first  *)
(* MAX_RESULTS.                                                            *)
(***************************************************************************)
VariantFilter(its, q) ==
    LET all == MatchingLines(its, q)
    IN  IF variant = "single" THEN SubSeq(all, 1, Min(Len(all), MAX_RESULTS)) ELSE all

(***************************************************************************)
(* C12.  Right after the debounce timeout has fired, in either variant,    *)
(* the cursor is 0 and the match list is the filter of the candidate list  *)
(* by the text of the entry: a function of these two alone, whatever the   *)
(* previous text, match list and cursor were.                              *)
(***************************************************************************)
C12_QueryChangeRecomputes ==
    lastEvent = "timeout"
        => /\ _selected_index = 0
           /\ _visible_items = VariantFilter(_items, text)

C12_Witness ==
    /\ variant = "single"
    /\ lastEvent = "timeout"
    /\ _items = CapList
    /\ text = " Y  y "
    /\ _visible_items = << "y" >>
    /\ _selected_index = 0

(***************************************************************************)
(* C13.  While Active with a non-empty match list of length n and cursor   *)
(* c: Up moves the cursor to max(0, c-1) and Down to min(n-1, c+1) (either *)
(* variant); in the multi-select variant Page_Up moves it to               *)
(* max(0, c - _items_per_page), Page_Down to min(n-1, c + _items_per_page),*)
(* Home to 0 and End to n-1.  None of them changes the candidates, the     *)
(* text, the match list or the toggled lines, emits a signal or ends the   *)
(* invocation.                                                             *)
(***************************************************************************)
NavKeys == { "Up", "Down", "Page_Up", "Page_Down", "Home", "End" }

NavTarget(symbol, c, n) ==
    CASE symbol = "Up"        -> IF c - 1 < 0 THEN 0 ELSE c - 1
      [] symbol = "Down"      -> IF c + 1 > n - 1 THEN n - 1 ELSE c + 1
      [] symbol = "Page_Up"   -> IF c - _items_per_page < 0 THEN 0 ELSE c - _items_per_page
      [] symbol = "Page_Down" -> IF c + _items_per_page > n - 1 THEN n - 1
                                 ELSE c + _items_per_page
      [] symbol = "Home"      -> 0
      [] symbol = "End"       -> n - 1

NavStep(symbol) ==
    /\ Active
    /\ Len(_visible_items) > 0
    /\ lastEvent' = symbol
    /\ variant = "multi" \/ symbol \in { "Up", "Down" }

C13_NavigationClamped ==
    [][\A symbol \in NavKeys :
          NavStep(symbol)
              => /\ _selected_index' =
                        NavTarget(symbol, _selected_index, Len(_visible_items))
                 /\ Active'
                 /\ UNCHANGED << _items, text, _visible_items, _selected_items,
                                 signals >>]_vars

C13_Witness ==
    /\ variant = "multi"
    /\ Active
    /\ lastEvent = "Page_Down"
    /\ _items = LongList
    /\ _visible_items = LongList
    /\ _selected_index = _items_per_page
    /\ _selected_items = << "x" >>

(***************************************************************************)
(* C14.  Multi-select, in every reachable state: the scroll window starts  *)
(* at an index >= 0; when the match list is not empty the cursor lies in   *)
(* the window [start, start + _items_per_page); and the window ends within *)
(* the match list, unless the match list is shorter than a page, in which  *)
(* case the window starts at 0.                                            *)
(***************************************************************************)
C14_ViewportHoldsCursor ==
    variant = "multi"
        => /\ _scroll_start_index >= 0
           /\ Len(_visible_items) > 0
                 => /\ _scroll_start_index <= _selected_index
                    /\ _selected_index < _scroll_start_index + _items_per_page
           /\ IF Len(_visible_items) < _items_per_page
              THEN _scroll_start_index = 0
              ELSE _scroll_start_index + _items_per_page <= Len(_visible_items)

C14_Witness ==
    /\ variant = "multi"
    /\ Active
    /\ _visible_items = LongList
    /\ _selected_index = LongLen - 1
    /\ _scroll_start_index = LongLen - _items_per_page
    /\ _scroll_start_index > 0

(***************************************************************************)
(* C15.  Multi-select, non-empty match list: Ctrl+space flips whether the  *)
(* highlighted line is toggled on and leaves the cursor where it is; Tab   *)
(* and Shift+Return flip it and move the cursor to                         *)
(* min(length - 1, cursor + 1), so at the last line the toggle happens and *)
(* the cursor stays.  None of the three changes whether another line is    *)
(* toggled on, emits a signal or ends the invocation; and a line is        *)
(* toggled on exactly when it was toggled an odd number of times since     *)
(* Show, so toggling it twice restores its membership.                     *)
(***************************************************************************)
ToggleKeys == { "Tab", "Ctrl+space", "Shift+Return" }

ToggleStep(symbol) ==
    /\ Active
    /\ variant = "multi"
    /\ Len(_visible_items) > 0
    /\ lastEvent' = symbol

TimesToggled(line) == Cardinality({ j \in 1..Len(toggles) : toggles[j] = line })

Lines(list) == { list[i] : i \in 1..Len(list) }

C15_ToggleFlipsMembership ==
    /\ [][\A symbol \in ToggleKeys :
              ToggleStep(symbol)
                  => /\ SetHas(_selected_items', currentItem)
                            = ~SetHas(_selected_items, currentItem)
                     /\ \A line \in Lines(_items) \ { currentItem } :
                            SetHas(_selected_items', line) = SetHas(_selected_items, line)
                     /\ _selected_index' =
                            IF symbol = "Ctrl+space" THEN _selected_index
                            ELSE IF _selected_index + 1 > Len(_visible_items) - 1
                                 THEN Len(_visible_items) - 1
                                 ELSE _selected_index + 1
                     /\ Active'
                     /\ UNCHANGED << _items, text, _visible_items, signals >>]_vars
    /\ [](variant = "multi"
             => \A line \in Lines(_items) \cup Lines(_selected_items) :
                    SetHas(_selected_items, line) <=> TimesToggled(line) % 2 = 1)

C15_Witness ==
    /\ variant = "multi"
    /\ Active
    /\ lastEvent = "Tab"
    /\ _visible_items = << "x", "y", "z" >>
    /\ _selected_index = 2
    /\ toggles = << "z", "z" >>
    /\ _selected_items = << >>

(***************************************************************************)
(* C16.  Single-select, non-empty match list: Tab moves the cursor to      *)
(* (cursor + 1) mod length, from the last line to index 0, and changes     *)
(* nothing else; a Commit emits exactly one ItemSelected carrying the      *)
(* highlighted line alone and ends the invocation.                         *)
(***************************************************************************)
C16_SingleTabCyclesCommitOne ==
    /\ [][(Active /\ variant = "single" /\ Len(_visible_items) > 0 /\ lastEvent' = "Tab")
             => /\ _selected_index' = (_selected_index + 1) % Len(_visible_items)
                /\ UNCHANGED << variant, enabled, attached, text, _items, _visible_items,
                                _selected_items, _filter_timeout, sources,
                                _scroll_start_index, signals, toggles >>]_vars
    /\ [][(CommitStep /\ variant = "single" /\ Len(_visible_items) > 0)
             => /\ signals' = << ItemSelected(<< _visible_items[_selected_index + 1] >>) >>
                /\ Idle']_vars

C16_Witness ==
    /\ variant = "single"
    /\ Active
    /\ lastEvent = "Tab"
    /\ _visible_items = << "x", "y", "z" >>
    /\ _selected_index = 0

(***************************************************************************)
(* C17 (as claimed).  Multi-select: the toggled lines are kept by position *)
(* in the list, so a toggle at the cursor never changes whether the line   *)
(* at another position is toggled on, also when the two positions hold the *)
(* same text.                                                              *)
(***************************************************************************)
RowToggledOn(sel, j) == SetHas(sel, _visible_items[j + 1])

C17_SelectionKeyedByPosition ==
    [][\A symbol \in ToggleKeys :
          ToggleStep(symbol)
              => \A j \in 0..(Len(_visible_items) - 1) :
                     j # _selected_index
                         => RowToggledOn(_selected_items', j) = RowToggledOn(_selected_items, j)]_vars

(***************************************************************************)
(* C18.  At most one debounce timeout source is pending in any state, the  *)
(* one _filter_timeout refers to, and none while the prompt is Idle.  A    *)
(* text change leaves exactly one source pending, whether or not one was   *)
(* pending before, so a burst of text changes is followed by one           *)
(* recomputation; the recomputation uses the text of the moment the        *)
(* timeout fires and leaves no source pending.                             *)
(***************************************************************************)
C18_OneDebounceTimer ==
    /\ [](sources <= 1)
    /\ [](_filter_timeout <=> sources = 1)
    /\ [](Idle => sources = 0)
    /\ [][lastEvent' = "text-changed" => sources' = 1]_vars
    /\ [][lastEvent' = "timeout"
             => /\ sources = 1
                /\ sources' = 0
                /\ text' = text
                /\ _visible_items' = VariantFilter(_items, text)]_vars

C18_Witness ==
    /\ Active
    /\ lastEvent = "text-changed"
    /\ sources = 1
    /\ _filter_timeout
    /\ text = "q"
    /\ _items = << "apple", "banana", "grape" >>
    /\ _visible_items = << "banana" >>

(***************************************************************************)
(* C19.  Liveness, under fairness of the timeout callback: once the text   *)
(* of an Active prompt has changed (a timeout is pending), eventually the  *)
(* prompt is Idle or the timeout has fired and left the cursor at 0 and    *)
(* the match list equal to the filter of the candidates by the text as it  *)
(* then stands.  So a prompt that stays Active with a text that stops      *)
(* changing gets the recomputation for its final text: the debounce        *)
(* delays it and does not suppress it.                                     *)
(***************************************************************************)
QueryChanged ==
    /\ Active
    /\ sources > 0 \/ lastEvent = "text-changed"

Recomputed ==
    /\ lastEvent = "timeout"
    /\ _selected_index = 0
    /\ _visible_items = VariantFilter(_items, text)

C19_DebounceOnlyDelays == QueryChanged ~> (Idle \/ Recomputed)

C19_Witness ==
    /\ Active
    /\ lastEvent = "timeout"
    /\ sources = 0
    /\ text = " Y  y "
    /\ _items = << "y", "x" >>
    /\ _visible_items = << "y" >>
    /\ _selected_index = 0

(***************************************************************************)
(* C20.  Multi-select, with buffer = _items_per_page \div 4: a step that   *)
(* changes the cursor or the match list leaves the window start at a value *)
(* s of 0 .. max(0, length - _items_per_page) with                         *)
(* s + buffer <= cursor < s + _items_per_page - buffer whenever there is   *)
(* such a value, and at the one of them nearest to the start before the    *)
(* step; so the start does not move when the cursor is already in that     *)
(* inner range.                                                            *)
(***************************************************************************)
ScrollBuffer == _items_per_page \div 4

InnerStarts(idx, n) ==
    { s \in 0..Max(0, n - _items_per_page) :
        s + ScrollBuffer <= idx /\ idx < s + _items_per_page - ScrollBuffer }

Distance(a, b) == IF a < b THEN b - a ELSE a - b

C20_ViewportMovesMinimally ==
    [][(variant = "multi"
          /\ (_selected_index' # _selected_index \/ _visible_items' # _visible_items))
          => LET inner == InnerStarts(_selected_index', Len(_visible_items'))
             IN  inner # { }
                    => /\ _scroll_start_index' \in inner
                       /\ \A s \in inner :
                              Distance(_scroll_start_index', _scroll_start_index)
                                  <= Distance(s, _scroll_start_index)
                       /\ _scroll_start_index \in inner
                              => _scroll_start_index' = _scroll_start_index]_vars

C20_Witness ==
    /\ variant = "multi"
    /\ Active
    /\ lastEvent = "Down"
    /\ _visible_items = LongList
    /\ _selected_index = _items_per_page - ScrollBuffer
    /\ _scroll_start_index = 1

(***************************************************************************)
(* C21.  While the prompt is Idle no key handler runs: the only steps are  *)
(* Show, enable and disable.  While it is Active with an empty match list, *)
(* a cursor key (Up, Down, Page_Up, Page_Down, Home, End) or a toggle key  *)
(* (Tab, Ctrl+space, and Shift+Return in the multi-select variant) leaves  *)
(* the cursor, the toggled lines, the window, the match list, the text,    *)
(* the candidates and the pending timeout as they are, emits no signal and *)
(* leaves the prompt Active.                                               *)
(***************************************************************************)
NoOpKeys ==
    NavKeys \cup { "Tab", "Ctrl+space" }
        \cup (IF variant = "multi" THEN { "Shift+Return" } ELSE { })

C21_NoOpWithoutMatches ==
    /\ [][Idle => lastEvent' \in { "show", "enable", "disable" }]_vars
    /\ [][(Active /\ _visible_items = << >> /\ lastEvent' \in NoOpKeys)
             => /\ Active'
                /\ UNCHANGED << variant, enabled, attached, text, _items, _visible_items,
                                _selected_index, _selected_items, _filter_timeout,
                                sources, _scroll_start_index, signals, toggles >>]_vars

C21_Witness ==
    /\ variant = "multi"
    /\ Active
    /\ lastEvent = "End"
    /\ _items = << "x", "y", "z" >>
    /\ text = "q"
    /\ _visible_items = << >>
    /\ _selected_index = 0
    /\ _selected_items = << "y" >>

(***************************************************************************)
(* C22.  Single-select: the match list never holds more than MAX_RESULTS   *)
(* lines, and the match list a recomputation (show, or the debounce        *)
(* timeout) leaves is the first MAX_RESULTS lines, in the order of the     *)
(* candidates, of the candidate lines that match every token of the text:  *)
(* all of them when they are at most MAX_RESULTS.                          *)
(***************************************************************************)
FirstLines(list, n) == SubSeq(list, 1, IF Len(list) < n THEN Len(list) ELSE n)

C22_SingleCapsMatches ==
    variant = "single"
        => /\ Len(_visible_items) <= MAX_RESULTS
           /\ lastEvent \in { "show", "timeout" }
                 => LET matching == MatchingLines(_items, text)
                    IN  /\ _visible_items = FirstLines(matching, MAX_RESULTS)
                        /\ Len(matching) <= MAX_RESULTS => _visible_items = matching

C22_Witness ==
    /\ variant = "single"
    /\ lastEvent = "timeout"
    /\ _items = CapList
    /\ text = " "
    /\ Len(_items) > MAX_RESULTS
    /\ Len(_visible_items) = MAX_RESULTS

(***************************************************************************)
(* C23.  In every reachable Active state in which no debounce timeout is   *)
(* pending, the match list is the filter of the candidates by the text of  *)
(* the entry; so it differs from that filter only while a timeout is       *)
(* pending.                                                                *)
(***************************************************************************)
C23_MatchListCurrentUnlessPending ==
    (Active /\ sources = 0 /\ ~_filter_timeout)
        => _visible_items = VariantFilter(_items, text)

C23_Witness ==
    /\ variant = "multi"
    /\ Active
    /\ sources = 0
    /\ lastEvent = "Ctrl+space"
    /\ _items = << "apple", "banana", "grape" >>
    /\ text = "an a"
    /\ _visible_items = << "banana" >>
    /\ _selected_items = << "banana" >>

(***************************************************************************)
(* C24.  In every reachable Active state the match list is a subsequence   *)
(* of the candidates of the current invocation and every toggled line is   *)
(* one of these candidates; and in every reachable state every line        *)
(* carried by an emitted ItemSelected is a line of the candidates passed   *)
(* to the most recent Show.                                                *)
(***************************************************************************)
RECURSIVE SubsequenceFrom(_, _, _, _)
SubsequenceFrom(a, i, b, j) ==
    IF i > Len(a) THEN TRUE
    ELSE IF j > Len(b) THEN FALSE
    ELSE IF a[i] = b[j] THEN SubsequenceFrom(a, i + 1, b, j + 1)
    ELSE SubsequenceFrom(a, i, b, j + 1)

IsSubsequence(a, b) == SubsequenceFrom(a, 1, b, 1)

C24_OnlyCurrentCandidates ==
    /\ Active
          => /\ IsSubsequence(_visible_items, _items)
             /\ Lines(_selected_items) \subseteq Lines(_items)
    /\ \A i \in 1..Len(signals) :
           signals[i].name = "ItemSelected" => Lines(signals[i].items) \subseteq Lines(_items)

C24_Witness ==
    /\ variant = "multi"
    /\ Idle
    /\ lastEvent = "Return"
    /\ _items = << "x", "y", "z" >>
    /\ text = "q"
    /\ _visible_items = << >>
    /\ signals = << ItemSelected(<< "z", "x" >>) >>

(***************************************************************************)
(* C25.  A text change and the recomputation run by its timeout leave the  *)
(* toggled lines as they are, in content and in order, also those that the *)
(* new match list no longer holds; the toggled lines of a prompt change    *)
(* only in a toggle key's step and in Show (enable builds a new prompt,    *)
(* with none).                                                             *)
(***************************************************************************)
C25_QueryChangeKeepsSelection ==
    /\ [][lastEvent' \in { "text-changed", "timeout" }
             => _selected_items' = _selected_items]_vars
    /\ [][_selected_items' # _selected_items
             => lastEvent' \in ToggleKeys \cup { "show", "enable" }]_vars

C25_Witness ==
    /\ variant = "multi"
    /\ Active
    /\ lastEvent = "timeout"
    /\ _items = << "x", "y", "z" >>
    /\ text = " Y  y "
    /\ _visible_items = << "y" >>
    /\ _selected_items = << "z", "x" >>

====
